---- MODULE Spec2Model ----
(***************************************************************************)
(* Model of risc0/circuit/rv32im/src/prove/hal/cuda.rs: the CUDA adapter   *)
(* of the circuit evaluation contract (CudaCircuitHal::eval_check).        *)
(*                                                                         *)
(* The host side of eval_check is translated statement by statement from   *)
(* cuda.rs.  The field arithmetic, map_pow, the root-of-unity table, the   *)
(* launch-shape rule, the device kernel and the sequential reference       *)
(* backend live in other crates of the repository; they are modelled from  *)
(* the specification's description of their numeric contract.              *)
(***************************************************************************)
EXTENDS Integers, Sequences, FiniteSets, TLC

(***************************************************************************)
(* Bounds of the model.                                                    *)
(***************************************************************************)
\* modulus of the (scaled down) base field
FieldP == 17
\* largest exponent k for which the root-of-unity table has an entry
MaxRouPo2 == 3
\* largest trace length a caller passes
MaxSteps == 2
\* threads per block of the launch shape
BlockSize == 3
\* largest coefficient of the challenges enumerated for the mix powers
MaxCoeff == 2
\* number of eval_check calls made on one backend instance
MaxCalls == 3
\* references to the CudaHal held outside the circuit hals at one time
MaxHolders == 3
\* CudaCircuitHal instances constructed in one process
MaxInstances == 3
\* largest po2 the conversion of the domain size to u32 is evaluated for
WidePo2 == 25

(***************************************************************************)
(* Program constants.                                                      *)
(***************************************************************************)
INV_RATE == 4
EXT_SIZE == 4
BETA == 11
REGISTER_GROUP_CTRL == 0
REGISTER_GROUP_DATA == 1
REGISTER_GROUP_ACCUM == 2
GLOBAL_MIX == 0
GLOBAL_OUT == 1
\* the exponent schedule crate::info::POLY_MIX_POWERS (strictly increasing)
POLY_MIX_POWERS == <<0, 1, 2, 4, 7>>
NUM_POLY_MIX_POWERS == Len(POLY_MIX_POWERS)

(***************************************************************************)
(* Field Arithmetic Module.                                                *)
(***************************************************************************)
RECURSIVE Pow2(_)
Pow2(k) == IF k = 0 THEN 1 ELSE 2 * Pow2(k - 1)

RECURSIVE Log2CeilFrom(_, _)
Log2CeilFrom(n, k) == IF Pow2(k) >= n THEN k ELSE Log2CeilFrom(n, k + 1)

\* risc0_zkp::core::log2_ceil
Log2Ceil(n) == Log2CeilFrom(n, 0)

\* base-field pow by repeated squaring: tot accumulates, x is squared
RECURSIVE ElemPowLoop(_, _, _)
ElemPowLoop(tot, x, n) ==
    IF n = 0 THEN tot
    ELSE ElemPowLoop(IF n % 2 = 1 THEN (tot * x) % FieldP ELSE tot,
                     (x * x) % FieldP, n \div 2)

ElemPow(x, n) == ElemPowLoop(1 % FieldP, x, n)

\* elements of multiplicative order exactly 2^k
RouCandidates(k) ==
    {x \in 1..(FieldP - 1) :
        /\ ElemPow(x, Pow2(k)) = 1
        /\ k > 0 => ElemPow(x, Pow2(k - 1)) # 1}

\* the table entry for exponent k: a generator of the subgroup of order 2^k
RouOf(k) ==
    IF RouCandidates(k) = {} THEN 0
    ELSE CHOOSE x \in RouCandidates(k) : \A y \in RouCandidates(k) : x <= y

\* BabyBearElem::ROU_FWD, entry k at position k + 1
ROU_FWD == [k \in 1..(MaxRouPo2 + 1) |-> RouOf(k - 1)]

ExtZero == [j \in 1..EXT_SIZE |-> 0]
ExtOne == [j \in 1..EXT_SIZE |-> IF j = 1 THEN 1 % FieldP ELSE 0]

\* multiplication in F_p[x] / (x^4 - BETA)
ExtMul(a, b) ==
    << (a[1]*b[1] + BETA * (a[2]*b[4] + a[3]*b[3] + a[4]*b[2])) % FieldP,
       (a[1]*b[2] + a[2]*b[1] + BETA * (a[3]*b[4] + a[4]*b[3])) % FieldP,
       (a[1]*b[3] + a[2]*b[2] + a[3]*b[1] + BETA * (a[4]*b[4])) % FieldP,
       (a[1]*b[4] + a[2]*b[3] + a[3]*b[2] + a[4]*b[1]) % FieldP >>

\* extension-field pow by repeated squaring
RECURSIVE ExtPowLoop(_, _, _)
ExtPowLoop(tot, x, n) ==
    IF n = 0 THEN tot
    ELSE ExtPowLoop(IF n % 2 = 1 THEN ExtMul(tot, x) ELSE tot,
                    ExtMul(x, x), n \div 2)

ExtPow(x, n) == ExtPowLoop(ExtOne, x, n)

\* risc0_core::field::map_pow: one power per schedule entry
MapPow(base, exponents) ==
    [i \in 1..Len(exponents) |-> ExtPow(base, exponents[i])]

\* BabyBearExtElem::as_u32_slice: the elements' coefficients laid out flat
AsU32Slice(elems) ==
    [w \in 1..(Len(elems) * EXT_SIZE) |->
        elems[((w - 1) \div EXT_SIZE) + 1][((w - 1) % EXT_SIZE) + 1]]

\* the device's view of the flat words as extension elements
FromU32Slice(words) ==
    [i \in 1..(Len(words) \div EXT_SIZE) |->
        [j \in 1..EXT_SIZE |-> words[(i - 1) * EXT_SIZE + j]]]

\* `x as u32`
AsU32(x) == (x % 65536) + 65536 * ((x \div 65536) % 65536)

(***************************************************************************)
(* Buffers and the native constraint definition.                           *)
(***************************************************************************)
Max2(a, b) == IF a >= b THEN a ELSE b

\* a buffer of n elements with contents fixed by (seed, k)
Buf(n, seed, k) == [j \in 1..n |-> (seed + k * j) % FieldP]

\* a device pointer: the check buffer, groups[i] or globals[i]
NullPtr == <<"null", 0>>
CheckPtr == <<"check", 0>>
GroupPtr(i) == <<"groups", i>>
GlobalPtr(i) == <<"globals", i>>

\* the buffer a pointer designates in memory m
Deref(m, p) ==
    IF p[1] = "check" THEN m.check
    ELSE IF p[1] = "groups" THEN m.groups[p[2] + 1]
    ELSE IF p[1] = "globals" THEN m.globals[p[2] + 1]
    ELSE <<>>

\* memory m with element j (0-based) of the buffer at p set to v.  A store
\* past the end of the buffer is not part of any buffer of the model.
Store(m, p, j, v) ==
    IF j + 1 \notin 1..Len(Deref(m, p)) THEN m
    ELSE IF p[1] = "check" THEN [m EXCEPT !.check[j + 1] = v]
    ELSE IF p[1] = "groups" THEN [m EXCEPT !.groups[p[2] + 1][j + 1] = v]
    ELSE IF p[1] = "globals" THEN [m EXCEPT !.globals[p[2] + 1][j + 1] = v]
    ELSE m

\* what a read past the end of a device buffer may return
Garbage == {0, 1}

\* element j (0-based) of buf; g stands for the outcome of an out-of-bounds read
Rd(buf, j, g) == IF j + 1 \in 1..Len(buf) THEN buf[j + 1] ELSE g

RECURSIVE SumExt(_, _)
SumExt(pows, i) ==
    IF i = 0 THEN 0
    ELSE (pows[i][1] + 2 * pows[i][2] + 3 * pows[i][3] + 5 * pows[i][4]
          + 7 * SumExt(pows, i - 1)) % FieldP

\* The fixed constraint polynomial at one domain point: a total, deterministic,
\* pure function of its column inputs at the point, the mix powers, the
\* root-of-unity term and the global mix/out vectors.  It reads no element
\* of check.
PolyFp(cycle, ctrl, data, accum, mix, out, pows, rou, po2, size, g) ==
    LET row == cycle \div INV_RATE
    IN (Rd(ctrl, row, g) + 2 * Rd(data, row, g) + 3 * Rd(accum, row, g)
        + 5 * Rd(mix, 0, g) + 7 * Rd(out, 0, g)
        + (cycle + 1) * SumExt(pows, Len(pows))
        + rou * cycle + po2 + size) % FieldP

\* CudaHal::compute_simple_params: <<grid, block>> with grid * block >= count
ComputeSimpleParams(count) ==
    <<(AsU32(count) + BlockSize - 1) \div BlockSize, BlockSize>>

(***************************************************************************)
(* Reference (sequential) backend: iterates the domain points one at a     *)
(* time on the calling thread.                                             *)
(***************************************************************************)
RECURSIVE CpuLoop(_, _, _, _, _, _)
CpuLoop(check, cycle, domain, inp, pows, rou) ==
    IF cycle >= domain THEN check
    ELSE CpuLoop([check EXCEPT ![cycle + 1] =
                      PolyFp(cycle,
                             inp.groups[REGISTER_GROUP_CTRL + 1],
                             inp.groups[REGISTER_GROUP_DATA + 1],
                             inp.groups[REGISTER_GROUP_ACCUM + 1],
                             inp.globals[GLOBAL_MIX + 1],
                             inp.globals[GLOBAL_OUT + 1],
                             pows, rou, inp.po2, domain, 0)],
                 cycle + 1, domain, inp, pows, rou)

CpuEvalCheck(inp) ==
    LET domain == inp.steps * INV_RATE
        rou == ROU_FWD[inp.po2 + Log2Ceil(INV_RATE) + 1]
        pows == MapPow(inp.poly_mix, POLY_MIX_POWERS)
    IN CpuLoop(inp.check, 0, domain, inp, pows, rou)

(***************************************************************************)
(* State.                                                                  *)
(***************************************************************************)
VARIABLES
    in,             \* the arguments of the current eval_check call
    mem,            \* device memory: the check, group and global buffers
    polyMixGlobal,  \* the module's device global "poly_mix" (flat u32 words)
    pc,             \* position of the host thread in eval_check
    failure,        \* the statement that panicked ("none" if none did)
    loc,            \* the locals of eval_check
    stream,         \* the call's stream: "none", "open" or "destroyed"
    tmp,            \* the rou/po2/size device buffers: "none", "alive", "freed"
    kargs,          \* the arguments the kernel was launched with
    todo,           \* launched kernel threads that have not run yet
    writes,         \* per check index, the stores made during this call
    mixWrites,      \* the copies into "poly_mix" made during this call
    seenMix,        \* the "poly_mix" contents read by the points evaluated
    callsLeft,      \* further calls the caller makes on this instance
    saved,          \* an earlier call's arguments and resulting check buffer
    pre,            \* the contents of "poly_mix" when the call was entered
    extRefs,        \* Rc<CudaHal> references held outside the circuit hals
    ctx,            \* the CudaHal and its context: "none", "alive", "destroyed"
    inst,           \* per CudaCircuitHal: "none", "alive", "hal_dropped", "dropped"
    loads           \* the Module::from_fatbin calls made in the process

\* the state of an eval_check call
evalVars == <<in, mem, polyMixGlobal, pc, failure, loc, stream, tmp, kargs, todo,
              writes, mixWrites, seenMix, callsLeft, saved, pre>>

\* the state of the objects' lifetimes
lifeVars == <<extRefs, ctx, inst, loads>>

vars == <<evalVars, lifeVars>>

Challenges == {<<1, 0, 0, 0>>, <<2, 1, 0, 0>>}
Po2s == 0..(MaxRouPo2 + 1)
Layouts == {"ok", "groups_short", "groups_long", "groups_mismatch",
            "globals_short", "globals_long"}
Seeds == {1}

\* the pairs <<po2, steps>> a well-formed call passes
ValidPairs == {ps \in Po2s \X (1..MaxSteps) :
                  /\ ps[1] + Log2Ceil(INV_RATE) <= MaxRouPo2
                  /\ ps[2] = Pow2(ps[1])}

GroupsFor(lay, steps, seed) ==
    LET three == <<Buf(steps, seed, 1), Buf(steps, seed, 2), Buf(steps, seed, 3)>>
    IN IF lay = "groups_short" THEN SubSeq(three, 1, 2)
       ELSE IF lay = "groups_long" THEN Append(three, Buf(steps, seed, 4))
       ELSE IF lay = "groups_mismatch"
            THEN <<Buf(steps, seed, 1), Buf(steps, seed, 2), Buf(steps - 1, seed, 3)>>
       ELSE three

GlobalsFor(lay, seed) ==
    LET two == <<Buf(2, seed, 5), Buf(2, seed, 6)>>
    IN IF lay = "globals_short" THEN SubSeq(two, 1, 1)
       ELSE IF lay = "globals_long" THEN Append(two, Buf(2, seed, 7))
       ELSE two

\* the check buffer as the caller hands it over: fresh, or holding old values
CheckFor(steps, stale) ==
    [j \in 1..(steps * INV_RATE) |-> IF stale THEN FieldP - 1 ELSE 0]

Inputs(c, p, s, lay, seed, stale) ==
    [groups |-> GroupsFor(lay, s, seed), globals |-> GlobalsFor(lay, seed),
     poly_mix |-> c, po2 |-> p, steps |-> s, check |-> CheckFor(s, stale)]

NoLocals ==
    [ctrl |-> NullPtr, data |-> NullPtr, accum |-> NullPtr, mix |-> NullPtr,
     out |-> NullPtr, domain |-> 0, rou |-> 0,
     scal |-> [rou |-> <<>>, po2 |-> <<>>, size |-> <<>>],
     pows |-> <<>>, params |-> <<0, 0>>]

NoArgs ==
    [check |-> NullPtr, ctrl |-> NullPtr, data |-> NullPtr, accum |-> NullPtr,
     mix |-> NullPtr, out |-> NullPtr, rou |-> "rou", po2 |-> "po2", size |-> "size"]

\* the module's global as the loaded program image leaves it
GlobalAtLoad == [w \in 1..(EXT_SIZE * NUM_POLY_MIX_POWERS) |-> 0]

\* lines 131-133: one CudaHal, one CudaCircuitHal holding a clone of its Rc,
\* the other reference held by the prover
ConstructedOnce ==
    /\ extRefs = 1
    /\ ctx = "alive"
    /\ inst = [i \in 1..MaxInstances |-> IF i = 1 THEN "alive" ELSE "none"]
    /\ loads = 1

\* the caller enters eval_check with arguments inp
Enter(inp) ==
    /\ in' = inp
    /\ mem' = [check |-> inp.check, groups |-> inp.groups, globals |-> inp.globals]
    /\ pc' = "entry"
    /\ failure' = "none"
    /\ loc' = NoLocals
    /\ stream' = "none"
    /\ tmp' = "none"
    /\ kargs' = NoArgs
    /\ todo' = {}
    /\ writes' = [i \in 0..(inp.steps * INV_RATE - 1) |-> 0]
    /\ mixWrites' = 0
    /\ seenMix' = {}
    /\ pre' = polyMixGlobal

InitCall(inp, global, calls) ==
    /\ in = inp
    /\ mem = [check |-> inp.check, groups |-> inp.groups, globals |-> inp.globals]
    /\ polyMixGlobal = global
    /\ pc = "entry"
    /\ failure = "none"
    /\ loc = NoLocals
    /\ stream = "none"
    /\ tmp = "none"
    /\ kargs = NoArgs
    /\ todo = {}
    /\ writes = [i \in 0..(inp.steps * INV_RATE - 1) |-> 0]
    /\ mixWrites = 0
    /\ seenMix = {}
    /\ callsLeft = calls
    /\ saved = <<>>
    /\ pre = global
    /\ ConstructedOnce

\* a freshly constructed backend instance, entered once: with well-laid-out
\* buffers, any challenge, any po2 and steps and any check contents; or with
\* one of the other layouts, and then with steps = 2^po2 in the table's range
\* (one challenge and one check contents for each)
Init ==
    \E c \in Challenges, p \in Po2s, s \in 1..MaxSteps, lay \in Layouts,
       seed \in Seeds, stale \in BOOLEAN :
        /\ lay # "ok" => (c = <<1, 0, 0, 0>> /\ stale /\ <<p, s>> \in ValidPairs)
        /\ InitCall(Inputs(c, p, s, lay, seed, stale), GlobalAtLoad, 0)

(***************************************************************************)
(* eval_check, statement by statement.                                     *)
(***************************************************************************)
\* variant: the Err is discarded instead of unwrapped and the call goes on to
\* return normally
PanicIgnored(place) ==
    /\ pc' = "returned"
    /\ failure' = place
    /\ stream' = IF stream = "open" THEN "destroyed" ELSE stream
    /\ tmp' = IF tmp = "alive" THEN "freed" ELSE tmp

\* a panic unwinds eval_check: the locals created so far are dropped
Panic(place) ==
    /\ pc' = "panicked"
    /\ failure' = place
    /\ stream' = IF stream = "open" THEN "destroyed" ELSE stream
    /\ tmp' = IF tmp = "alive" THEN "freed" ELSE tmp

\* slice indexing groups[i] / globals[i]: in bounds or a panic
GroupsIndexOk(inp) ==
    Len(inp.groups) >
        Max2(REGISTER_GROUP_CTRL, Max2(REGISTER_GROUP_DATA, REGISTER_GROUP_ACCUM))

GlobalsIndexOk(inp) == Len(inp.globals) > Max2(GLOBAL_MIX, GLOBAL_OUT)

\* lines 65-69
IndexBuffers ==
    /\ pc = "entry"
    /\ IF ~GroupsIndexOk(in)
       THEN Panic("groups_index") /\ UNCHANGED loc
       ELSE IF ~GlobalsIndexOk(in)
       THEN Panic("globals_index") /\ UNCHANGED loc
       ELSE /\ loc' = [loc EXCEPT !.ctrl = GroupPtr(REGISTER_GROUP_CTRL),
                                  !.data = GroupPtr(REGISTER_GROUP_DATA),
                                  !.accum = GroupPtr(REGISTER_GROUP_ACCUM),
                                  !.mix = GlobalPtr(GLOBAL_MIX),
                                  !.out = GlobalPtr(GLOBAL_OUT)]
            /\ pc' = "indexed"
            /\ UNCHANGED <<failure, stream, tmp>>
    /\ UNCHANGED <<in, mem, polyMixGlobal, kargs, todo, writes, mixWrites,
                   seenMix, callsLeft, saved, pre, lifeVars>>

\* line 84
EXP_PO2 == Log2Ceil(INV_RATE)

\* variant: the domain is taken to be the number of steps
EvalDomainNoRate(steps) == steps

\* line 85
EvalDomain(steps) == steps * INV_RATE

\* variant: the table is indexed by po2 alone
RouIndexNoShift(po2) == po2

\* line 86: the index into ROU_FWD
RouIndex(po2) == po2 + EXP_PO2

\* variant: the table's last entry is refused
RouIndexOkStrict(po2) == RouIndex(po2) + 1 < Len(ROU_FWD)

\* line 86: whether the table has the index (slice indexing panics if not)
RouIndexOk(po2) == RouIndex(po2) + 1 \in DOMAIN ROU_FWD

\* lines 84-86
LookupRou ==
    /\ pc = "indexed"
    /\ IF RouIndexOk(in.po2)
       THEN /\ loc' = [loc EXCEPT !.domain = EvalDomain(in.steps),
                                  !.rou = ROU_FWD[RouIndex(in.po2) + 1]]
            /\ pc' = "rou"
            /\ UNCHANGED <<failure, stream, tmp>>
       ELSE Panic("rou_index") /\ UNCHANGED loc
    /\ UNCHANGED <<in, mem, polyMixGlobal, kargs, todo, writes, mixWrites,
                   seenMix, callsLeft, saved, pre, lifeVars>>

\* lines 88-90: the three one-element device buffers
ScalarBuffers(rou, po2, domain) ==
    [rou |-> <<rou>>, po2 |-> <<AsU32(po2)>>, size |-> <<AsU32(domain)>>]

\* variant: the three buffers are temporaries of the statements that create
\* them and are freed at once
CopyScalarsTemporary ==
    /\ pc = "rou"
    /\ loc' = [loc EXCEPT !.scal = ScalarBuffers(loc.rou, in.po2, loc.domain)]
    /\ tmp' = "freed"
    /\ pc' = "scalars"
    /\ UNCHANGED <<in, mem, polyMixGlobal, failure, stream, kargs, todo, writes,
                   mixWrites, seenMix, callsLeft, saved, pre, lifeVars>>

\* lines 88-90: the three scalars are uploaded into buffers held by locals
CopyScalars ==
    /\ pc = "rou"
    /\ loc' = [loc EXCEPT !.scal = ScalarBuffers(loc.rou, in.po2, loc.domain)]
    /\ tmp' = "alive"
    /\ pc' = "scalars"
    /\ UNCHANGED <<in, mem, polyMixGlobal, failure, stream, kargs, todo, writes,
                   mixWrites, seenMix, callsLeft, saved, pre, lifeVars>>

\* variant: the powers 0, 1, 2, ... instead of the schedule's exponents
PolyMixPowsLinear(poly_mix) ==
    AsU32Slice(MapPow(poly_mix, [i \in 1..NUM_POLY_MIX_POWERS |-> i - 1]))

\* lines 92-94: the mix powers as flat u32 words
PolyMixPows(poly_mix) == AsU32Slice(MapPow(poly_mix, POLY_MIX_POWERS))

\* lines 92-96: try_into a fixed-size array, unwrapped
ComputeMixPows ==
    /\ pc = "scalars"
    /\ IF Len(PolyMixPows(in.poly_mix)) = EXT_SIZE * NUM_POLY_MIX_POWERS
       THEN /\ loc' = [loc EXCEPT !.pows = PolyMixPows(in.poly_mix)]
            /\ pc' = "pows"
            /\ UNCHANGED <<failure, stream, tmp>>
       ELSE Panic("try_into") /\ UNCHANGED loc
    /\ UNCHANGED <<in, mem, polyMixGlobal, kargs, todo, writes, mixWrites,
                   seenMix, callsLeft, saved, pre, lifeVars>>

\* variant: the global is looked up but the powers are never copied into it
WriteMixGlobalSkipped ==
    /\ pc = "pows"
    /\ \/ pc' = "global" /\ UNCHANGED <<failure, stream, tmp>>
       \/ Panic("get_global")
    /\ UNCHANGED <<in, mem, polyMixGlobal, mixWrites, loc, kargs, todo, writes,
                   seenMix, callsLeft, saved, pre, lifeVars>>

\* lines 98-103: get_global(..).unwrap().copy_from(..).unwrap()
WriteMixGlobal ==
    /\ pc = "pows"
    /\ \/ /\ polyMixGlobal' = loc.pows
          /\ mixWrites' = mixWrites + 1
          /\ pc' = "global"
          /\ UNCHANGED <<failure, stream, tmp>>
       \/ \E place \in {"get_global", "copy_from"} :
            Panic(place) /\ UNCHANGED <<polyMixGlobal, mixWrites>>
    /\ UNCHANGED <<in, mem, loc, kargs, todo, writes, seenMix, callsLeft, saved, pre, lifeVars>>

\* line 105
CreateStream ==
    /\ pc = "global"
    /\ \/ stream' = "open" /\ pc' = "stream" /\ UNCHANGED <<failure, tmp>>
       \/ Panic("stream_new")
    /\ UNCHANGED <<in, mem, polyMixGlobal, loc, kargs, todo, writes, mixWrites,
                   seenMix, callsLeft, saved, pre, lifeVars>>

\* line 107
GetFunction ==
    /\ pc = "stream"
    /\ \/ pc' = "kernel" /\ UNCHANGED <<failure, stream, tmp>>
       \/ Panic("get_function")
    /\ UNCHANGED <<in, mem, polyMixGlobal, loc, kargs, todo, writes, mixWrites,
                   seenMix, callsLeft, saved, pre, lifeVars>>

\* variant: the launch shape is computed from the trace length
LaunchParamsOfSteps(domain) == ComputeSimpleParams(domain \div INV_RATE)

\* variant: a single block is launched whatever the domain
LaunchParamsOneBlock(domain) == <<1, BlockSize>>

\* line 108
LaunchParams(domain) == ComputeSimpleParams(domain)

\* variant: check and ctrl change places in the argument list
KernelArgsSwapped(l) ==
    [check |-> l.ctrl, ctrl |-> CheckPtr, data |-> l.data, accum |-> l.accum,
     mix |-> l.mix, out |-> l.out, rou |-> "rou", po2 |-> "po2", size |-> "size"]

\* variant: check is also passed where ctrl belongs
KernelArgsAliased(l) ==
    [check |-> CheckPtr, ctrl |-> CheckPtr, data |-> l.data, accum |-> l.accum,
     mix |-> l.mix, out |-> l.out, rou |-> "rou", po2 |-> "po2", size |-> "size"]

\* lines 110-120: the kernel's positional arguments
KernelArgs(l) ==
    [check |-> CheckPtr, ctrl |-> l.ctrl, data |-> l.data, accum |-> l.accum,
     mix |-> l.mix, out |-> l.out, rou |-> "rou", po2 |-> "po2", size |-> "size"]

\* lines 108-121
Launch ==
    /\ pc = "kernel"
    /\ \/ /\ loc' = [loc EXCEPT !.params = LaunchParams(loc.domain)]
          /\ kargs' = KernelArgs(loc)
          /\ todo' = 0..(LaunchParams(loc.domain)[1] * LaunchParams(loc.domain)[2] - 1)
          /\ pc' = "launched"
          /\ UNCHANGED <<failure, stream, tmp>>
       \/ Panic("launch") /\ UNCHANGED <<loc, kargs, todo>>
    /\ UNCHANGED <<in, mem, polyMixGlobal, writes, mixWrites, seenMix,
                   callsLeft, saved, pre, lifeVars>>

\* the value kernel thread t computes from what it is handed
PointValue(t, m, a, scal, global, g) ==
    PolyFp(t, Deref(m, a.ctrl), Deref(m, a.data), Deref(m, a.accum),
           Deref(m, a.mix), Deref(m, a.out), FromU32Slice(global),
           scal[a.rou][1], scal[a.po2][1], scal[a.size][1], g)

\* the slot of check kernel thread t stores into
PointSlot(t) == t

\* one thread of the kernel: threads at or past `size` return at once, the
\* others evaluate their point and store it.  The device runs the launched
\* threads wherever the host is in the call; a panic at launch or
\* synchronize means the driver reported the work failed, and none runs on
KernelThread(t) ==
    /\ pc \in {"launched", "synced", "returned"}
    /\ t \in todo
    /\ todo' = todo \ {t}
    /\ IF t >= loc.scal[kargs.size][1]
       THEN UNCHANGED <<mem, writes, seenMix>>
       ELSE \E g \in Garbage :
            /\ mem' = Store(mem, kargs.check, PointSlot(t),
                            PointValue(t, mem, kargs, loc.scal, polyMixGlobal, g))
            /\ writes' = IF kargs.check = CheckPtr /\ PointSlot(t) \in DOMAIN writes
                         THEN [writes EXCEPT ![PointSlot(t)] = @ + 1]
                         ELSE writes
            /\ seenMix' = seenMix \cup {polyMixGlobal}
    /\ UNCHANGED <<in, polyMixGlobal, pc, failure, loc, stream, tmp, kargs,
                   mixWrites, callsLeft, saved, pre, lifeVars>>

\* variant: synchronize does not wait
SyncNoWait == TRUE

\* stream.synchronize() returns Ok only once all work on the stream is complete
SyncComplete == todo = {}

\* line 123
Synchronize ==
    /\ pc = "launched"
    /\ \/ /\ SyncComplete
          /\ pc' = "synced"
          /\ UNCHANGED <<failure, stream, tmp>>
       \/ Panic("synchronize")
    /\ UNCHANGED <<in, mem, polyMixGlobal, loc, kargs, todo, writes, mixWrites,
                   seenMix, callsLeft, saved, pre, lifeVars>>

\* line 124: the locals go out of scope and eval_check returns
Return ==
    /\ pc = "synced"
    /\ pc' = "returned"
    /\ stream' = "destroyed"
    /\ tmp' = "freed"
    /\ UNCHANGED <<in, mem, polyMixGlobal, failure, loc, kargs, todo, writes,
                   mixWrites, seenMix, callsLeft, saved, pre, lifeVars>>

EvalCheckStep ==
    \/ IndexBuffers
    \/ LookupRou
    \/ CopyScalars
    \/ ComputeMixPows
    \/ WriteMixGlobal
    \/ CreateStream
    \/ GetFunction
    \/ Launch
    \/ \E t \in todo : KernelThread(t)
    \/ Synchronize
    \/ Return

Next == EvalCheckStep

Spec == Init /\ [][Next]_vars

(***************************************************************************)
(* Several calls on one backend instance.  The caller (the segment prover) *)
(* holds the instance behind an Rc and calls eval_check through &self, so  *)
(* the calls of one instance are serial.  Each call gets well-formed       *)
(* arguments; the check buffer of a later call is fresh or is the buffer   *)
(* the previous call filled.  A panic aborts the enclosing proof attempt,  *)
(* so only a call that returned is followed by another.                    *)
(***************************************************************************)
SameArgs(a, b) ==
    /\ a.groups = b.groups
    /\ a.globals = b.globals
    /\ a.poly_mix = b.poly_mix
    /\ a.po2 = b.po2
    /\ a.steps = b.steps

InitCalls ==
    \E c \in Challenges, ps \in ValidPairs, seed \in Seeds, stale \in BOOLEAN :
        InitCall(Inputs(c, ps[1], ps[2], "ok", seed, stale), GlobalAtLoad,
                 MaxCalls - 1)

\* the caller keeps the finished call's arguments and result, or does not;
\* c is the challenge of the call it makes next
Remember(c) ==
    \/ UNCHANGED saved
    \/ /\ saved = <<>>
       /\ pc = "returned"
       /\ saved' = <<[args |-> in, check |-> mem.check,
                      mixed |-> c # in.poly_mix]>>

\* the next call on the same instance
CallAgain ==
    /\ pc = "returned"
    /\ callsLeft > 0
    /\ callsLeft' = callsLeft - 1
    /\ \E c \in Challenges, ps \in ValidPairs, seed \in Seeds, reuse \in BOOLEAN :
        LET fresh == Inputs(c, ps[1], ps[2], "ok", seed, FALSE)
            inp == IF reuse /\ Len(mem.check) = Len(fresh.check)
                   THEN [fresh EXCEPT !.check = mem.check] ELSE fresh
        IN /\ Enter(inp)
           /\ \/ /\ saved = <<>>
                 /\ Remember(c)
              \/ /\ saved # <<>>
                 /\ saved' = <<[saved[1] EXCEPT !.mixed =
                                   @ \/ c # saved[1].args.poly_mix]>>
    /\ UNCHANGED <<polyMixGlobal, lifeVars>>

NextCalls == EvalCheckStep \/ CallAgain

SpecCalls == InitCalls /\ [][NextCalls]_vars

(***************************************************************************)
(* The mix-power derivation on its own: eval_check stands right before     *)
(* lines 92-96 with any challenge.                                         *)
(***************************************************************************)
AllChallenges == [1..EXT_SIZE -> 0..MaxCoeff]

InitPow ==
    \E c \in AllChallenges :
        LET inp == Inputs(c, 0, 1, "ok", 1, FALSE)
        IN /\ in = inp
           /\ mem = [check |-> inp.check, groups |-> inp.groups,
                     globals |-> inp.globals]
           /\ polyMixGlobal = GlobalAtLoad
           /\ pc = "scalars"
           /\ failure = "none"
           /\ loc = [NoLocals EXCEPT
                       !.ctrl = GroupPtr(REGISTER_GROUP_CTRL),
                       !.data = GroupPtr(REGISTER_GROUP_DATA),
                       !.accum = GroupPtr(REGISTER_GROUP_ACCUM),
                       !.mix = GlobalPtr(GLOBAL_MIX),
                       !.out = GlobalPtr(GLOBAL_OUT),
                       !.domain = EvalDomain(inp.steps),
                       !.rou = ROU_FWD[RouIndex(inp.po2) + 1],
                       !.scal = ScalarBuffers(ROU_FWD[RouIndex(inp.po2) + 1],
                                              inp.po2, EvalDomain(inp.steps))]
           /\ stream = "none"
           /\ tmp = "alive"
           /\ kargs = NoArgs
           /\ todo = {}
           /\ writes = [i \in 0..(inp.steps * INV_RATE - 1) |-> 0]
           /\ mixWrites = 0
           /\ seenMix = {}
           /\ callsLeft = 0
           /\ saved = <<>>
           /\ pre = GlobalAtLoad
           /\ ConstructedOnce

NextPow == ComputeMixPows

SpecPow == InitPow /\ [][NextPow]_vars

(***************************************************************************)
(* The lifetimes of the CudaHal, its context, and the circuit hals with    *)
(* their modules.  Everything here runs on one thread (Rc is not Send), so *)
(* the drop of a CudaCircuitHal, once begun, runs to its end before        *)
(* anything else happens.                                                  *)
(***************************************************************************)
\* the strong count of the Rc<CudaHal>: the references outside plus the hal
\* field of every circuit hal that still has it
StrongCount(refs, instances) ==
    refs + Cardinality({i \in DOMAIN instances : instances[i] = "alive"})

\* the CudaHal, owner of the context, is dropped with its last reference
CtxAfterDrop(refs, instances) ==
    IF StrongCount(refs, instances) = 0 THEN "destroyed" ELSE ctx

\* the circuit hal owns a loaded module that it has not yet released
ModuleLoaded(i) == inst[i] \in {"alive", "hal_dropped"}

NoDropInProgress == \A i \in DOMAIN inst : inst[i] # "hal_dropped"

\* line 131: Rc::new(CudaHalSha256::new())
NewHal ==
    /\ ctx = "none"
    /\ ctx' = "alive"
    /\ extRefs' = 1
    /\ UNCHANGED <<inst, loads, evalVars>>

\* line 132: hal.clone()
CloneHal ==
    /\ NoDropInProgress
    /\ extRefs \in 1..(MaxHolders - 1)
    /\ extRefs' = extRefs + 1
    /\ UNCHANGED <<ctx, inst, loads, evalVars>>

\* a holder outside the circuit hals drops its Rc<CudaHal>
DropHalRef ==
    /\ NoDropInProgress
    /\ extRefs > 0
    /\ extRefs' = extRefs - 1
    /\ ctx' = CtxAfterDrop(extRefs - 1, inst)
    /\ UNCHANGED <<inst, loads, evalVars>>

\* variant: the module is loaded by the first construction only and shared
\* by the later ones
NewCircuitHalCached(i) ==
    /\ NoDropInProgress
    /\ inst[i] = "none"
    /\ extRefs > 0
    /\ extRefs' = extRefs - 1
    /\ loads' = IF loads = 0 THEN 1 ELSE loads
    /\ inst' = [inst EXCEPT ![i] = "alive"]
    /\ UNCHANGED <<ctx, evalVars>>

\* lines 48-51: CudaCircuitHal::new(hal) takes a reference by value and loads
\* the module from the fatbin; if the load fails the unwrap panics and the
\* reference is dropped by the unwinding
NewCircuitHal(i) ==
    /\ NoDropInProgress
    /\ inst[i] = "none"
    /\ extRefs > 0
    /\ extRefs' = extRefs - 1
    /\ loads' = loads + 1
    /\ \/ /\ inst' = [inst EXCEPT ![i] = "alive"]
          /\ UNCHANGED ctx
       \/ /\ inst' = [inst EXCEPT ![i] = "failed"]
          /\ ctx' = CtxAfterDrop(extRefs - 1, inst')
    /\ UNCHANGED evalVars

\* lines 41-44: a CudaCircuitHal is dropped field by field in the order of
\* declaration; first the field hal ...
DropCircuitHalHal(i) ==
    /\ NoDropInProgress
    /\ inst[i] = "alive"
    /\ inst' = [inst EXCEPT ![i] = "hal_dropped"]
    /\ ctx' = CtxAfterDrop(extRefs, inst')
    /\ UNCHANGED <<extRefs, loads, evalVars>>

\* ... then the field module, which unloads it
DropCircuitHalModule(i) ==
    /\ inst[i] = "hal_dropped"
    /\ inst' = [inst EXCEPT ![i] = "dropped"]
    /\ UNCHANGED <<extRefs, ctx, loads, evalVars>>

\* the process before anything is constructed; no eval_check call is going on
InitLife ==
    /\ extRefs = 0
    /\ ctx = "none"
    /\ inst = [i \in 1..MaxInstances |-> "none"]
    /\ loads = 0
    /\ in = Inputs(<<1, 0, 0, 0>>, 0, 1, "ok", 1, FALSE)
    /\ mem = [check |-> in.check, groups |-> in.groups, globals |-> in.globals]
    /\ polyMixGlobal = GlobalAtLoad
    /\ pc = "idle"
    /\ failure = "none"
    /\ loc = NoLocals
    /\ stream = "none"
    /\ tmp = "none"
    /\ kargs = NoArgs
    /\ todo = {}
    /\ writes = [j \in {} |-> 0]
    /\ mixWrites = 0
    /\ seenMix = {}
    /\ callsLeft = 0
    /\ saved = <<>>
    /\ pre = GlobalAtLoad

NextLife ==
    \/ NewHal
    \/ CloneHal
    \/ DropHalRef
    \/ \E i \in 1..MaxInstances : NewCircuitHal(i)
    \/ \E i \in 1..MaxInstances : DropCircuitHalHal(i)
    \/ \E i \in 1..MaxInstances : DropCircuitHalModule(i)

SpecLife == InitLife /\ [][NextLife]_vars

(***************************************************************************)
(* Properties.                                                             *)
(***************************************************************************)
\* three group buffers of the same size steps, two globals, po2 in the
\* table's range and steps = 2^po2
ValidInput(inp) ==
    /\ Len(inp.groups) = 3
    /\ \A i \in 1..Len(inp.groups) : Len(inp.groups[i]) = inp.steps
    /\ Len(inp.globals) = 2
    /\ inp.po2 + Log2Ceil(INV_RATE) <= MaxRouPo2
    /\ inp.steps = Pow2(inp.po2)

\* memory as the caller handed it over
EntryMem == [check |-> in.check, groups |-> in.groups, globals |-> in.globals]

\* the number of domain points of the call
Domain == in.steps * INV_RATE

\* C1: for every valid input, the check buffer the accelerated backend
\* leaves equals, element by element, the one the reference backend computes.
C1_CrossBackendEquivalence ==
    (pc = "returned" /\ ValidInput(in)) =>
        /\ Len(mem.check) = Domain
        /\ \A i \in 1..Domain : mem.check[i] = CpuEvalCheck(in)[i]

C1_Witness ==
    /\ pc = "returned"
    /\ ValidInput(in)
    /\ in.steps > 1
    /\ mem.check # in.check

\* C2: eval_check has returned only after the synchronization completed; in
\* no state has the call returned while a launched thread has yet to run.
C2_SynchronousCompletion ==
    pc \in {"synced", "returned"} => todo = {}

C2_Witness ==
    /\ pc = "returned"
    /\ loc.params[1] > 1
    /\ loc.params[1] * loc.params[2] > Domain

\* C3: when eval_check returns, every index of check in [0, steps * INV_RATE)
\* has been stored to exactly once during the call.
C3_TotalCoverage ==
    pc = "returned" =>
        \A i \in 0..(Domain - 1) : i \in DOMAIN writes /\ writes[i] = 1

C3_Witness ==
    /\ pc = "returned"
    /\ in.steps > 1
    /\ in.check[1] = FieldP - 1
    /\ \A i \in 1..Domain : mem.check[i] # in.check[i]

\* groups does not hold exactly three buffers, or their sizes differ
BadGroups(inp) ==
    \/ Len(inp.groups) # 3
    \/ \E i, j \in 1..Len(inp.groups) : Len(inp.groups[i]) # Len(inp.groups[j])

\* C4: a call whose groups are malformed gets no further than the validation:
\* it fails there, and no element of check has been modified.
C4_MalformedLayoutRejected ==
    (BadGroups(in) /\ pc # "entry") =>
        /\ pc = "panicked"
        /\ failure = "groups_index"
        /\ mem.check = in.check

\* the call got past the indexing of groups and globals and past the table lookup
PastLookup == pc \notin {"entry", "indexed"} /\ failure \notin {"groups_index", "globals_index"}

\* C5 as stated: po2 equal to the table's largest exponent is accepted, po2
\* one past it is refused at the lookup.
C5_TopOfTableAccepted ==
    PastLookup =>
        /\ in.po2 = MaxRouPo2 => failure # "rou_index"
        /\ in.po2 = MaxRouPo2 + 1 => failure = "rou_index"

\* C5 (amended): the table is looked up at po2 + log2(INV_RATE); a call
\* passes the lookup iff that index is at most the table's largest exponent,
\* and a call that does not panics there with nothing uploaded, launched or
\* stored to check.
C5_DomainBoundary ==
    PastLookup =>
        IF in.po2 + Log2Ceil(INV_RATE) <= MaxRouPo2
        THEN /\ failure # "rou_index"
             /\ loc.rou = ROU_FWD[in.po2 + Log2Ceil(INV_RATE) + 1]
        ELSE /\ pc = "panicked"
             /\ failure = "rou_index"
             /\ mem = EntryMem
             /\ tmp = "none"
             /\ mixWrites = 0
             /\ todo = {}

C5_Witness ==
    /\ pc = "returned"
    /\ in.po2 + Log2Ceil(INV_RATE) = MaxRouPo2

\* C6: the mix powers are stored in the poly_mix global once per call, before
\* the launch; from the launch until the call ends the global holds them, so
\* every point evaluated reads the same vector.
C6_MixPowersOnce ==
    /\ mixWrites <= 1
    /\ seenMix \subseteq {loc.pows}
    /\ (pc \in {"launched", "synced", "returned"} \/ todo # {}) =>
          /\ mixWrites = 1
          /\ polyMixGlobal = loc.pows
          /\ FromU32Slice(polyMixGlobal) = MapPow(in.poly_mix, POLY_MIX_POWERS)

C6_Witness ==
    /\ pc = "launched"
    /\ todo # {}
    /\ seenMix # {}
    /\ pre # polyMixGlobal

\* the product of n copies of c
RECURSIVE NaivePow(_, _)
NaivePow(c, n) == IF n = 0 THEN ExtOne ELSE ExtMul(c, NaivePow(c, n - 1))

\* C7: the derived vector has the schedule's length and its entry i is the
\* challenge raised to schedule[i]; for the schedule [0,1,2] it is [1, c, c*c].
C7_MixPowerCorrect ==
    pc = "pows" =>
        LET c == in.poly_mix
            v == FromU32Slice(loc.pows)
        IN /\ Len(loc.pows) = EXT_SIZE * Len(POLY_MIX_POWERS)
           /\ Len(v) = Len(POLY_MIX_POWERS)
           /\ \A i \in 1..Len(POLY_MIX_POWERS) :
                 v[i] = NaivePow(c, POLY_MIX_POWERS[i])
           /\ MapPow(c, <<0, 1, 2>>) = <<ExtOne, c, ExtMul(c, c)>>

C7_Witness ==
    /\ pc = "pows"
    /\ \A j \in 1..EXT_SIZE : in.poly_mix[j] = MaxCoeff

\* C8: a call that returns with the arguments of an earlier call of the same
\* instance leaves the check buffer that earlier call left.
C8_Determinism ==
    (pc = "returned" /\ saved # <<>> /\ SameArgs(saved[1].args, in)) =>
        mem.check = saved[1].check

C8_Witness ==
    /\ pc = "returned"
    /\ saved # <<>>
    /\ SameArgs(saved[1].args, in)
    /\ saved[1].mixed
    /\ saved[1].args.check # in.check
    /\ in.steps > 1

\* check as every order of the per-point evaluations must leave it
FinalCheck ==
    [i \in 1..Domain |->
        PointValue(i - 1, EntryMem, kargs, loc.scal, loc.pows, 0)]

\* no point reads past the end of a group or global buffer
NoOobRead ==
    /\ \A i \in 1..3 : Len(in.groups[i]) >= in.steps
    /\ \A i \in 1..2 : Len(in.globals[i]) >= 1

\* one per-point evaluation: thread t alone leaves todo, no slot of check but
\* slot t changes, and the value stored is computed from memory as it was on
\* entry, that is, from no element of check written during the call
PointStep ==
    (pc = "launched" /\ todo' # todo) =>
        \E t \in todo :
            /\ todo' = todo \ {t}
            /\ Len(mem'.check) = Len(mem.check)
            /\ \A j \in 1..Len(mem.check) :
                  j # t + 1 => mem'.check[j] = mem.check[j]
            /\ t < Domain =>
                  \E g \in Garbage :
                      mem'.check[t + 1] =
                          PointValue(t, EntryMem, kargs, loc.scal, loc.pows, g)

\* C9: the evaluation of point i writes only check[i] and reads no element of
\* check, and every interleaving of the evaluations ends in the same buffer.
C9_PointIndependence ==
    /\ [][PointStep]_vars
    /\ []((pc = "synced" /\ NoOobRead) => mem.check = FinalCheck)

C9_Witness ==
    /\ pc = "launched"
    /\ 0 \in todo
    /\ \E t \in 1..(Domain - 1) : t \notin todo
    /\ \E t \in 1..(Domain - 1) : t \in todo

\* C10 as stated: apart from check, everything that outlives the call is as
\* it was before the call, the state of the backend instance included.
C10_NothingButCheckChanged ==
    pc = "returned" =>
        /\ mem.groups = in.groups
        /\ mem.globals = in.globals
        /\ polyMixGlobal = pre

\* C10 (amended): the call leaves the group and global buffers as they were
\* and keeps none of the device resources it created; besides check it
\* changes the module's poly_mix global, which then holds the call's powers.
C10_FrameExceptMixGlobal ==
    pc = "returned" =>
        /\ mem.groups = in.groups
        /\ mem.globals = in.globals
        /\ stream = "destroyed"
        /\ tmp = "freed"
        /\ polyMixGlobal = PolyMixPows(in.poly_mix)

C10_Witness ==
    /\ pc = "returned"
    /\ polyMixGlobal # pre
    /\ mem.check # in.check

(***************************************************************************)
(* C11: failures of the dispatch steps.                                    *)
(***************************************************************************)
\* the steps on the driver whose Result eval_check unwraps (lines 98-123)
DispatchSteps ==
    {"get_global", "copy_from", "stream_new", "get_function", "launch",
     "synchronize"}

\* C11: when one of the dispatch steps (looking up or writing the poly_mix
\* global, creating the stream, looking up the kernel, launching,
\* synchronizing) fails, the call ends in the failure outcome that unwinds
\* into the caller: the failure is recorded by the step that was at that
\* moment being attempted for the first time, no statement of the call runs
\* after it (so the step is not attempted again), and the call never reaches
\* its normal return.
C11_DispatchFailureSurfaced ==
    /\ [](failure \in DispatchSteps => pc = "panicked")
    /\ [][/\ pc # "panicked"
          /\ failure' # failure => (failure = "none" /\ pc' = "panicked")]_vars

\* a synchronize that failed with device work outstanding
C11_Witness ==
    /\ pc = "panicked"
    /\ failure = "synchronize"
    /\ todo # {}

(***************************************************************************)
(* C12, C13: the context, the modules and their loading.                   *)
(***************************************************************************)
\* C12: in every state in which a CudaCircuitHal's module is loaded and not
\* yet released, the context of the CudaHal it was constructed with is
\* alive, also when the circuit hal holds the last reference and also in the
\* middle of the circuit hal's own destruction.
C12_ContextOutlivesModule ==
    \A i \in DOMAIN inst : ModuleLoaded(i) => ctx = "alive"

BadDomainParameters(inp) ==
    \/ inp.steps # Pow2(inp.po2)
    \/ Len(inp.globals) # 2

\* C14: a call with steps different from 2^po2, or with globals not holding
\* exactly the two required buffers, gets no further than the lookups at the
\* head of eval_check: it fails there, with nothing uploaded, no stream
\* created, no kernel launched and check and the other buffers untouched.
C14_DomainParametersValidated ==
    (BadDomainParameters(in) /\ pc \notin {"entry", "indexed"}) =>
        /\ pc = "panicked"
        /\ tmp = "none"
        /\ stream = "none"
        /\ mixWrites = 0
        /\ mem = EntryMem

(***************************************************************************)
(* C15: what the kernel is handed.                                         *)
(***************************************************************************)
\* lines 89-90: `po2 as u32` and `domain as u32` lose nothing
SizeConversionExact ==
    \A p \in 0..WidePo2 :
        /\ AsU32(Pow2(p) * INV_RATE) = Pow2(p) * INV_RATE
        /\ AsU32(p) = p

\* C15: once the kernel is launched by a call with steps = 2^po2, the three
\* scalar buffers it is handed hold rou = ROU_FWD[po2 + log2(INV_RATE)], po2
\* itself and size = steps * INV_RATE, the launch shape is the one computed
\* from steps * INV_RATE and has a thread for every point of the domain; and
\* for every po2 up to WidePo2 the conversion of 2^po2 * INV_RATE (and of
\* po2) to 32 bits gives back the number itself.
C15_DispatchParameters ==
    /\ (pc \in {"launched", "synced", "returned"} /\ in.steps = Pow2(in.po2)) =>
           /\ loc.scal[kargs.rou] = <<ROU_FWD[in.po2 + Log2Ceil(INV_RATE) + 1]>>
           /\ loc.scal[kargs.po2] = <<in.po2>>
           /\ loc.scal[kargs.size] = <<in.steps * INV_RATE>>
           /\ loc.params = ComputeSimpleParams(in.steps * INV_RATE)
           /\ loc.params[1] * loc.params[2] >= in.steps * INV_RATE
    /\ SizeConversionExact

\* the largest accepted po2, its kernel launched: more than one block
C15_Witness ==
    /\ pc = "launched"
    /\ in.po2 = MaxRouPo2 - Log2Ceil(INV_RATE)
    /\ in.steps = Pow2(in.po2)
    /\ loc.params[1] > 1

(***************************************************************************)
(* C16: the buffers of rou, po2 and size, and the stream.                  *)
(***************************************************************************)
\* a step of a kernel thread
ThreadStep == todo' # todo /\ todo' \subseteq todo

\* the step that frees the scalar buffers, or destroys the stream
ReleaseStep ==
    \/ tmp = "alive" /\ tmp' = "freed"
    \/ stream = "open" /\ stream' = "destroyed"

\* C16: the buffers of rou, po2 and size exist and the stream is open when
\* the kernel is launched; once it is launched they are released only after
\* synchronize has returned (at the end of the call when it returned Ok, by
\* the unwinding when it returned an error), and when a step before the
\* launch fails they are released with no kernel launched; a kernel thread
\* only ever runs with the buffers alive and the stream open, and after a
\* normal return no thread is left to run.
C16_DeviceResourcesOutliveKernel ==
    /\ [](pc = "launched" => (tmp = "alive" /\ stream = "open"))
    /\ [](pc = "returned" => (todo = {} /\ tmp = "freed" /\ stream = "destroyed"))
    /\ [][/\ ThreadStep => (tmp = "alive" /\ stream = "open")
          /\ ReleaseStep =>
                \/ pc = "synced" /\ todo = {}
                \/ pc = "launched" /\ failure' = "synchronize"
                \/ pc \notin {"launched", "synced"} /\ pc' = "panicked" /\ todo = {}]_vars

\* a call that ran its threads, synchronized and released its resources
C16_Witness ==
    /\ pc = "returned"
    /\ tmp = "freed"
    /\ stream = "destroyed"
    /\ \A j \in DOMAIN writes : writes[j] = 1

====
